---- MODULE Spec2Model ----
(***************************************************************************)
(* StemSCAPE-SI.py: one run of main().  Two tab-separated tables are read, *)
(* their non-numeric columns label-encoded, a random forest fitted on the  *)
(* training matrix, a tree explainer built from it, and three tables       *)
(* written: training_shap.tsv, testing_shap.tsv and                        *)
(* feature_importance_vs_shap.tsv.                                         *)
(*                                                                         *)
(* Strings whose ORDER matters (cell values, labels, identifiers) are      *)
(* sequences of character codes, compared as Python compares str.  Column  *)
(* names and file names, only ever compared for equality, are TLA+ strings.*)
(* An empty field of the file (pandas NaN) is the empty sequence.          *)
(***************************************************************************)
EXTENDS Integers, Sequences, FiniteSets, TLC

\* ------------------------------------------------------------------ bounds
MaxRows == 2
NumSeeds == 2

\* ------------------------------------------------------- command line, names
NoneCol == "<None>"
LabelCol == "stem"
IdCol == "SampleID"
TrainName == "training.txt"
TestName == "testing.txt"
TrainingShap == "training_shap.tsv"
TestingShap == "testing_shap.tsv"
ImportanceFile == "feature_importance_vs_shap.tsv"

\* ------------------------------------------------------------ cell values
NaN == <<>>
StrNan == <<110, 97, 110>>
StrA == <<65>>
StrAB == <<65, 66>>
StrNo == <<110, 111>>
StrYes == <<121, 101, 115>>
StrMaybe == <<109, 97, 121, 98, 101>>

Range(s) == {s[i] : i \in DOMAIN s}

\* Python's str comparison: lexicographic by code point, a proper prefix first.
RECURSIVE StrLess(_, _)
StrLess(a, b) ==
    IF a = <<>> THEN b # <<>>
    ELSE IF b = <<>> THEN FALSE
    ELSE IF Head(a) # Head(b) THEN Head(a) < Head(b)
    ELSE StrLess(Tail(a), Tail(b))

\* Series.astype(str) on an object column: a str stays, a missing value is "nan".
AsStr(v) == IF v = NaN THEN StrNan ELSE v

AsStrSeq(vals) == [i \in DOMAIN vals |-> AsStr(vals[i])]

\* "train<i>" / "score<i>" identifiers of an identifier column, and f"sample_{i}".
IdCell(prefix, i) == <<prefix, 48 + i>>
SampleName(i) == <<115, 97, 109, 112, 108, 101, 95, 48 + i>>

\* ----------------------------------------------------------- LabelEncoder
\* classes_ = sorted(set(values))
RECURSIVE SortedSeq(_)
SortedSeq(S) ==
    IF S = {} THEN <<>>
    ELSE LET m == CHOOSE x \in S : \A y \in S \ {x} : StrLess(x, y)
         IN  <<m>> \o SortedSeq(S \ {m})

IndexOf(seq, v) == CHOOSE i \in DOMAIN seq : seq[i] = v

LECodes(classes, vals) == [i \in DOMAIN vals |-> IndexOf(classes, vals[i]) - 1]

\* LabelEncoder().fit_transform(values): the fitted classes_ and the codes.
FitTransform(vals) ==
    LET cls == SortedSeq(Range(vals))
    IN  [classes |-> cls, codes |-> LECodes(cls, vals)]

\* LabelEncoder.transform(values): ValueError on a value outside classes_.
TransformFails(classes, vals) == \E i \in DOMAIN vals : vals[i] \notin Range(classes)

\* ------------------------------------------------------------- data frames
\* A frame is [columns: sequence of names, data: name -> [dtype, vals]].
HasColumn(df, c) == c \in Range(df.columns)

NRows(df) == df.nrows

DropColumns(df, names) ==
    LET keep(c) == c \notin names
        cols == SelectSeq(df.columns, keep)
    IN  [columns |-> cols, nrows |-> df.nrows,
         data |-> [c \in Range(cols) |-> df.data[c]]]

\* Mutant of EncodeColumn: codes in order of first appearance, not sorted order.
EncodeColumn_Appearance(col) ==
    IF col.dtype = "num" THEN col
    ELSE LET v == AsStrSeq(col.vals)
             first(i) == CHOOSE k \in DOMAIN v : v[k] = v[i] /\ \A m \in 1..(k - 1) : v[m] # v[i]
         IN  [dtype |-> "num",
              vals |-> [i \in DOMAIN v |-> Cardinality({v[m] : m \in 1..(first(i) - 1)})]]

EncodeColumn(col) ==
    IF col.dtype = "num" THEN col
    ELSE [dtype |-> "num", vals |-> FitTransform(AsStrSeq(col.vals)).codes]

encode_non_numeric(X) ==
    [columns |-> X.columns, nrows |-> X.nrows,
     data |-> [c \in Range(X.columns) |-> EncodeColumn(X.data[c])]]

\* ---------------------------------------------------------------- options
NoneY == [some |-> FALSE, val |-> <<>>]
SomeY(v) == [some |-> TRUE, val |-> v]
NoError == [type |-> "none", at |-> "none", names |-> {}]
Err(type, at, names) == [type |-> type, at |-> at, names |-> names]
EmptyFrame == [columns |-> <<>>, nrows |-> 0, data |-> <<>>]

\* Mutants of ProcessDataError: the training-label check dropped; the label
\* demanded of every table; the label check made before the identifier lookup.
ProcessDataError_NoTrainCheck(file, label_col, sample_col, le_y, is_train) ==
    IF ~file.exists THEN "FileNotFoundError"
    ELSE IF sample_col # NoneCol /\ ~HasColumn(file.df, sample_col) THEN "KeyError"
    ELSE IF /\ HasColumn(file.df, label_col)
            /\ ~is_train
            /\ TransformFails(le_y.classes, AsStrSeq(file.df.data[label_col].vals))
         THEN "UnseenLabel"
    ELSE "none"

ProcessDataError_LabelRequired(file, label_col, sample_col, le_y, is_train) ==
    IF ~file.exists THEN "FileNotFoundError"
    ELSE IF sample_col # NoneCol /\ ~HasColumn(file.df, sample_col) THEN "KeyError"
    ELSE IF ~HasColumn(file.df, label_col) THEN "ConfigError"
    ELSE IF /\ ~is_train
            /\ TransformFails(le_y.classes, AsStrSeq(file.df.data[label_col].vals))
         THEN "UnseenLabel"
    ELSE "none"

ProcessDataError_LabelFirst(file, label_col, sample_col, le_y, is_train) ==
    IF ~file.exists THEN "FileNotFoundError"
    ELSE IF is_train /\ ~HasColumn(file.df, label_col) THEN "ConfigError"
    ELSE IF sample_col # NoneCol /\ ~HasColumn(file.df, sample_col) THEN "KeyError"
    ELSE IF /\ HasColumn(file.df, label_col)
            /\ ~is_train
            /\ TransformFails(le_y.classes, AsStrSeq(file.df.data[label_col].vals))
         THEN "UnseenLabel"
    ELSE "none"

\* ------------------------------------------------------------ process_data
\* The exception process_data raises, or "none".
ProcessDataError(file, label_col, sample_col, le_y, is_train) ==
    IF ~file.exists THEN "FileNotFoundError"
    ELSE IF sample_col # NoneCol /\ ~HasColumn(file.df, sample_col) THEN "KeyError"
    ELSE IF is_train /\ ~HasColumn(file.df, label_col) THEN "ConfigError"
    ELSE IF /\ HasColumn(file.df, label_col)
            /\ ~is_train
            /\ TransformFails(le_y.classes, AsStrSeq(file.df.data[label_col].vals))
         THEN "UnseenLabel"
    ELSE "none"

ProcessIds(df, sample_col) ==
    IF sample_col # NoneCol THEN AsStrSeq(df.data[sample_col].vals)
    ELSE [i \in 1..NRows(df) |-> SampleName(i - 1)]

SampleDrop(sample_col) == IF sample_col # NoneCol THEN {sample_col} ELSE {}

ProcessX(df, label_col, sample_col) ==
    IF HasColumn(df, label_col)
    THEN encode_non_numeric(DropColumns(df, {label_col} \cup SampleDrop(sample_col)))
    ELSE encode_non_numeric(DropColumns(df, SampleDrop(sample_col)))

\* Mutant of ProcessLe: fit_transform on every labelled table.
ProcessLe_Refit(df, label_col, le_y, is_train) ==
    IF HasColumn(df, label_col)
    THEN [classes |-> FitTransform(AsStrSeq(df.data[label_col].vals)).classes,
          fits |-> IF is_train THEN le_y.fits + 1 ELSE le_y.fits]
    ELSE le_y

\* le_y after the call: refitted by the training call, untouched otherwise.
ProcessLe(df, label_col, le_y, is_train) ==
    IF HasColumn(df, label_col) /\ is_train
    THEN [classes |-> FitTransform(AsStrSeq(df.data[label_col].vals)).classes,
          fits |-> le_y.fits + 1]
    ELSE le_y

ProcessY(df, label_col, le_y, is_train) ==
    IF ~HasColumn(df, label_col) THEN NoneY
    ELSE IF is_train THEN SomeY(FitTransform(AsStrSeq(df.data[label_col].vals)).codes)
    ELSE SomeY(LECodes(le_y.classes, AsStrSeq(df.data[label_col].vals)))

\* ------------------------------------------------------------ input files
NoFile == [exists |-> FALSE, name |-> "", df |-> EmptyFrame]

\* Row i of a column cycles through the pair p of cell values.
Cycle(p, n) == [i \in 1..n |-> p[((i - 1) % 2) + 1]]

ColumnOf(c, n, prefix, tissue, labels) ==
    IF c = IdCol THEN [dtype |-> "obj", vals |-> [i \in 1..n |-> IdCell(prefix, i)]]
    ELSE IF c = "age" THEN [dtype |-> "num", vals |-> [i \in 1..n |-> 30 + 7 * i]]
    ELSE IF c = "tissue" THEN [dtype |-> "obj", vals |-> Cycle(tissue, n)]
    ELSE [dtype |-> "obj", vals |-> Cycle(labels, n)]

MakeFile(name, layout, n, prefix, tissue, labels) ==
    [exists |-> TRUE, name |-> name,
     df |-> [columns |-> layout, nrows |-> n,
             data |-> [c \in Range(layout) |-> ColumnOf(c, n, prefix, tissue, labels)]]]

TrainLayouts ==
    { <<IdCol, "age", "tissue", LabelCol>>, <<"age", "tissue", LabelCol>>,
      <<IdCol, "age", "tissue">>, <<"age", "tissue">> }

TestLayouts ==
    { <<IdCol, "age", "tissue", LabelCol>>, <<IdCol, "age", "tissue">>,
      <<IdCol, "tissue", "age">>, <<IdCol, "age">>, <<"age", "tissue">> }

TrainCells == {StrA, StrAB}
TestCells == {StrA, StrAB, NaN}
TrainLabels == {StrNo, StrYes}
TestLabels == {StrNo, StrYes, StrMaybe}

TrainFiles ==
    {NoFile} \cup
    { MakeFile(TrainName, l, n, 116, t, y) :
        l \in TrainLayouts, n \in 1..MaxRows,
        t \in TrainCells \X TrainCells, y \in TrainLabels \X TrainLabels }

TestFiles ==
    {NoFile} \cup
    { MakeFile(TestName, l, n, 115, t, y) :
        l \in TestLayouts, n \in 1..MaxRows,
        t \in TestCells \X TestCells, y \in TestLabels \X TestLabels }

\* ------------------------------------------- RandomForestClassifier (sklearn)
RECURSIVE SumSeq(_)
SumSeq(s) == IF s = <<>> THEN 0 ELSE Head(s) + SumSeq(Tail(s))

Abs(x) == IF x < 0 THEN 0 - x ELSE x

Unfitted == [fits |-> 0, feature_names_in |-> <<>>, n_classes |-> 0, seed |-> 0]

\* model.fit(X, y): the columns and classes seen; seed is the forest's random state.
FitModel(model, X, y, seed) ==
    [fits |-> model.fits + 1, feature_names_in |-> X.columns,
     n_classes |-> Cardinality(Range(y.val)), seed |-> seed]

\* model.feature_importances_: one score per fitted column, by position.
FeatureImportances(model) ==
    [j \in 1..Len(model.feature_names_in) |-> (model.seed + j) % 3]

\* The positive-class attribution of cell x of column j.
ShapCell(seed, x, j) == ((x + j + seed) % 3) - 1

Base(seed, c) == 10 * c + 30 + seed

Cell(X, i, j) == X.data[X.columns[j]].vals[i]

\* Mutant of PredictProbaError: columns matched by count only (names ignored).
PredictProbaError_Positional(model, X) ==
    IF Len(X.columns) # Len(model.feature_names_in) THEN "SchemaError"
    ELSE IF model.n_classes < 2 THEN "IndexError"
    ELSE "none"

\* model.predict_proba(X)[:, 1]: the exception raised, or "none".
PredictProbaError(model, X) ==
    IF X.columns # model.feature_names_in THEN "SchemaError"
    ELSE IF model.n_classes < 2 THEN "IndexError"
    ELSE "none"

PredictProba1(model, X) ==
    [i \in 1..NRows(X) |->
        Base(model.seed, 1)
        + SumSeq([j \in 1..Len(X.columns) |-> ShapCell(model.seed, Cell(X, i, j), j)])]

\* ------------------------------------------------------ shap.TreeExplainer
NoExplainer == [builds |-> 0, conv |-> "none", expected_value |-> [ndim |-> 0, val |-> <<>>]]

\* explainer.expected_value as np.array: one baseline per class; a single-output
\* model yields a bare scalar (ndim 0) or a one-element array, by library version.
ExpectedValue(model, scalar) ==
    IF model.n_classes >= 2
    THEN [ndim |-> 1, val |-> [c \in 1..model.n_classes |-> Base(model.seed, c - 1)]]
    ELSE [ndim |-> IF scalar THEN 0 ELSE 1, val |-> <<Base(model.seed, 0)>>]

ClassMatrix(model, X, c) ==
    [i \in 1..NRows(X) |->
        [j \in 1..Len(X.columns) |->
            IF model.n_classes < 2 THEN 0
            ELSE IF c = 1 THEN ShapCell(model.seed, Cell(X, i, j), j)
            ELSE 0 - ShapCell(model.seed, Cell(X, i, j), j)]]

\* explainer.shap_values(X): a list of per-class arrays or a 3-dimensional array
\* (per[c + 1] is class c), or a plain 2-dimensional array for a single output.
ShapValues(explainer, model, X) ==
    IF model.n_classes < 2
    THEN [kind |-> "ndarray", ndim |-> 2, per |-> <<ClassMatrix(model, X, 0)>>]
    ELSE [kind |-> explainer.conv, ndim |-> IF explainer.conv = "list" THEN 0 ELSE 3,
          per |-> [c \in 1..model.n_classes |-> ClassMatrix(model, X, c - 1)]]

\* ----------------------------------------------------- output_shap_results
\* Lines 82-88: the positive-class slice of shap_values.
SelectShapArray(sv) ==
    IF sv.kind = "list" /\ Len(sv.per) > 1
    THEN [err |-> "none", twoD |-> TRUE, m |-> sv.per[2]]
    ELSE IF sv.kind = "ndarray" /\ sv.ndim = 3
    THEN IF Len(sv.per) > 1
         THEN [err |-> "none", twoD |-> TRUE, m |-> sv.per[2]]
         ELSE [err |-> "IndexError", twoD |-> FALSE, m |-> <<>>]
    ELSE IF sv.kind = "ndarray"
    THEN [err |-> "none", twoD |-> TRUE, m |-> sv.per[1]]
    ELSE [err |-> "none", twoD |-> FALSE, m |-> <<>>]

\* Line 143: baseline_class1 from np.array(explainer.expected_value).
SelectBaseline(baseline_array) ==
    IF baseline_array.ndim > 0 /\ Len(baseline_array.val) > 1
    THEN [err |-> "none", v |-> baseline_array.val[2]]
    ELSE IF baseline_array.ndim = 0
    THEN [err |-> "IndexError", v |-> 0]
    ELSE [err |-> "none", v |-> baseline_array.val[1]]

ShapHeader == <<"SampleID", "baseline_value", "StemSCAPE-SI">>

\* DataFrame.insert refuses a column name the frame already has.
InsertClash(X) == \E c \in Range(ShapHeader) : HasColumn(X, c)

NoFileOut == [name |-> "", columns |-> <<>>, ids |-> <<>>, baseline |-> <<>>,
              si |-> <<>>, values |-> <<>>, rows |-> <<>>]

\* The exception output_shap_results raises before to_csv, or "none".
OutputShapError(X, model, explainer) ==
    IF PredictProbaError(model, X) # "none" THEN PredictProbaError(model, X)
    ELSE IF SelectShapArray(ShapValues(explainer, model, X)).err # "none"
    THEN SelectShapArray(ShapValues(explainer, model, X)).err
    ELSE IF ~SelectShapArray(ShapValues(explainer, model, X)).twoD THEN "ValueError"
    ELSE IF InsertClash(X) THEN "ValueError"
    ELSE "none"

OutputShapArray(X, model, explainer) ==
    SelectShapArray(ShapValues(explainer, model, X)).m

\* Mutant of OutputShapFile: the baseline taken afresh from the explainer for each
\* matrix, at the class index of the matrix's position.
OutputShapFile_OwnBaseline(ids, X, model, explainer, baseline_class1, name) ==
    [name |-> name,
     columns |-> ShapHeader \o X.columns,
     ids |-> ids,
     baseline |-> [i \in DOMAIN ids |->
                     IF name = TrainingShap THEN baseline_class1
                     ELSE explainer.expected_value.val[1]],
     si |-> PredictProba1(model, X),
     values |-> SelectShapArray(ShapValues(explainer, model, X)).m,
     rows |-> <<>>]

\* df_shap as written to f'{name}_shap.tsv'.
OutputShapFile(ids, X, model, explainer, baseline_class1, name) ==
    [name |-> name,
     columns |-> ShapHeader \o X.columns,
     ids |-> ids,
     baseline |-> [i \in DOMAIN ids |-> baseline_class1],
     si |-> PredictProba1(model, X),
     values |-> OutputShapArray(X, model, explainer),
     rows |-> <<>>]

\* ------------------------------------------------------- aggregate report
\* np.mean(np.abs(a), axis=0)[j], kept as the fraction num / den.
MeanAbs(a, j) == [num |-> SumSeq([i \in DOMAIN a |-> Abs(a[i][j])]), den |-> Len(a)]

MeanAbsShap(a, nfeat) == [j \in 1..nfeat |-> MeanAbs(a, j)]

ImportanceRows(fi) ==
    [j \in DOMAIN fi.Feature |->
        [Feature |-> fi.Feature[j], RF_FeatureImportance |-> fi.RF_FeatureImportance[j],
         MeanAbsSHAP |-> fi.MeanAbsSHAP[j]]]

Perms(n) == {p \in [1..n -> 1..n] : \A i, j \in 1..n : i # j => p[i] # p[j]}

\* Mutant of SortedDescending: ascending=True, the default of sort_values.
SortedAscending(rows) ==
    { [k \in DOMAIN rows |-> rows[p[k]]] : p \in
        { q \in Perms(Len(rows)) :
            \A a, b \in DOMAIN rows :
                a < b => rows[q[a]].RF_FeatureImportance <= rows[q[b]].RF_FeatureImportance } }

\* sort_values('RF_FeatureImportance', ascending=False): every row order the sort
\* may return (the order of equal scores is not fixed).
SortedDescending(rows) ==
    { [k \in DOMAIN rows |-> rows[p[k]]] : p \in
        { q \in Perms(Len(rows)) :
            \A a, b \in DOMAIN rows :
                a < b => rows[q[a]].RF_FeatureImportance >= rows[q[b]].RF_FeatureImportance } }

NoImportance == [Feature |-> <<>>, RF_FeatureImportance |-> <<>>, MeanAbsSHAP |-> <<>>]

CompletionMessages == <<"--- Analysis Complete ---", "Results successfully saved to: outdir">>

\* ------------------------------------------------------------------ state
VARIABLES pc, sample_col, trainFile, testFile, le_y,
          train_ids, X_train, y_train_enc, test_ids, X_test, y_test_enc,
          model, feat_importance, explainer, baseline_class1, train_shap_array,
          files, stdout, error

inputs == <<sample_col, trainFile>>
loaded == <<le_y, train_ids, X_train, y_train_enc, test_ids, X_test, y_test_enc>>
fitted == <<model, feat_importance, explainer, baseline_class1, train_shap_array>>
outputs == <<files, stdout>>

vars == <<pc, sample_col, trainFile, testFile, le_y,
          train_ids, X_train, y_train_enc, test_ids, X_test, y_test_enc,
          model, feat_importance, explainer, baseline_class1, train_shap_array,
          files, stdout, error>>

Init ==
    /\ pc = "process_train"
    /\ sample_col \in {NoneCol, IdCol}
    /\ trainFile \in TrainFiles
    /\ testFile = NoFile
    /\ le_y = [classes |-> <<>>, fits |-> 0]
    /\ train_ids = <<>>
    /\ X_train = EmptyFrame
    /\ y_train_enc = NoneY
    /\ test_ids = <<>>
    /\ X_test = EmptyFrame
    /\ y_test_enc = NoneY
    /\ model = Unfitted
    /\ feat_importance = NoImportance
    /\ explainer = NoExplainer
    /\ baseline_class1 = 0
    /\ train_shap_array = <<>>
    /\ files = <<>>
    /\ stdout = <<>>
    /\ error = NoError

\* Mutant of Abort: a failure of the scoring explanation is swallowed and the run
\* goes on to the aggregate report.
Abort_Swallowed(type, at, names) ==
    /\ pc' = IF at = "explain_test" THEN "aggregate" ELSE "failed"
    /\ error' = IF at = "explain_test" THEN error ELSE Err(type, at, names)

\* An exception leaves main: nothing after the raising statement runs.
Abort(type, at, names) ==
    /\ pc' = "failed"
    /\ error' = Err(type, at, names)

\* main, line 119: process_data(args.train, ..., is_train=True)
ProcessTrain ==
    /\ pc = "process_train"
    /\ LET e == ProcessDataError(trainFile, LabelCol, sample_col, le_y, TRUE)
       IN  IF e # "none"
           THEN /\ Abort(e, "process_train",
                         IF e = "ConfigError" THEN {trainFile.name, LabelCol} ELSE {})
                /\ UNCHANGED <<le_y, train_ids, X_train, y_train_enc>>
           ELSE /\ pc' = "process_test"
                /\ train_ids' = ProcessIds(trainFile.df, sample_col)
                /\ X_train' = ProcessX(trainFile.df, LabelCol, sample_col)
                /\ y_train_enc' = ProcessY(trainFile.df, LabelCol, le_y, TRUE)
                /\ le_y' = ProcessLe(trainFile.df, LabelCol, le_y, TRUE)
                /\ error' = error
    /\ UNCHANGED <<inputs, testFile, test_ids, X_test, y_test_enc, fitted, outputs>>

\* main, line 121: process_data(args.test, ..., is_train=False)
ProcessTest ==
    /\ pc = "process_test"
    /\ \E f \in TestFiles :
         /\ testFile' = f
         /\ LET e == ProcessDataError(f, LabelCol, sample_col, le_y, FALSE)
            IN  IF e # "none"
                THEN /\ Abort(e, "process_test", {})
                     /\ UNCHANGED <<le_y, test_ids, X_test, y_test_enc>>
                ELSE /\ pc' = "fit"
                     /\ test_ids' = ProcessIds(f.df, sample_col)
                     /\ X_test' = ProcessX(f.df, LabelCol, sample_col)
                     /\ y_test_enc' = ProcessY(f.df, LabelCol, le_y, FALSE)
                     /\ le_y' = ProcessLe(f.df, LabelCol, le_y, FALSE)
                     /\ error' = error
    /\ UNCHANGED <<inputs, train_ids, X_train, y_train_enc, fitted, outputs>>

\* main, lines 125-130: model.fit(X_train, y_train_enc); the library call may raise.
Fit ==
    /\ pc = "fit"
    /\ \/ /\ \E seed \in 1..NumSeeds :
               model' = FitModel(model, X_train, y_train_enc, seed)
          /\ pc' = "feat_importance"
          /\ error' = error
       \/ /\ Abort("LibraryError", "fit", {})
          /\ model' = model
    /\ UNCHANGED <<inputs, testFile, loaded, feat_importance, explainer,
                   baseline_class1, train_shap_array, outputs>>

\* main, lines 133-136
FeatImportance ==
    /\ pc = "feat_importance"
    /\ feat_importance' = [Feature |-> X_train.columns,
                           RF_FeatureImportance |-> FeatureImportances(model),
                           MeanAbsSHAP |-> <<>>]
    /\ pc' = "explainer"
    /\ UNCHANGED <<inputs, testFile, loaded, model, explainer, baseline_class1,
                   train_shap_array, outputs, error>>

\* main, line 139: shap.TreeExplainer(model); the library call may raise.
BuildExplainer ==
    /\ pc = "explainer"
    /\ \/ /\ \E conv \in {"list", "ndarray"}, scalar \in BOOLEAN :
               /\ model.n_classes >= 2 => scalar
               /\ explainer' = [builds |-> explainer.builds + 1, conv |-> conv,
                                expected_value |-> ExpectedValue(model, scalar)]
          /\ pc' = "baseline"
          /\ error' = error
       \/ /\ Abort("LibraryError", "explainer", {})
          /\ explainer' = explainer
    /\ UNCHANGED <<inputs, testFile, loaded, model, feat_importance, baseline_class1,
                   train_shap_array, outputs>>

\* main, lines 140-143
Baseline ==
    /\ pc = "baseline"
    /\ LET b == SelectBaseline(explainer.expected_value)
       IN  IF b.err # "none"
           THEN /\ Abort(b.err, "baseline", {})
                /\ baseline_class1' = baseline_class1
           ELSE /\ baseline_class1' = b.v
                /\ pc' = "explain_train"
                /\ error' = error
    /\ UNCHANGED <<inputs, testFile, loaded, model, feat_importance, explainer,
                   train_shap_array, outputs>>

\* main, lines 146-148: output_shap_results(train_ids, X_train, ..., 'training')
ExplainTrain ==
    /\ pc = "explain_train"
    /\ LET e == OutputShapError(X_train, model, explainer)
       IN  IF e # "none"
           THEN /\ Abort(e, "explain_train", {})
                /\ UNCHANGED <<train_shap_array, files>>
           ELSE \/ /\ files' = Append(files, OutputShapFile(train_ids, X_train, model,
                                         explainer, baseline_class1, TrainingShap))
                   /\ train_shap_array' = OutputShapArray(X_train, model, explainer)
                   /\ pc' = "explain_test"
                   /\ error' = error
                \/ /\ Abort("OSError", "explain_train", {})
                   /\ UNCHANGED <<train_shap_array, files>>
    /\ UNCHANGED <<inputs, testFile, loaded, model, feat_importance, explainer,
                   baseline_class1, stdout>>

\* main, lines 151-153: output_shap_results(test_ids, X_test, ..., 'testing')
ExplainTest ==
    /\ pc = "explain_test"
    /\ LET e == OutputShapError(X_test, model, explainer)
       IN  IF e # "none"
           THEN /\ Abort(e, "explain_test", {})
                /\ files' = files
           ELSE \/ /\ files' = Append(files, OutputShapFile(test_ids, X_test, model,
                                         explainer, baseline_class1, TestingShap))
                   /\ pc' = "aggregate"
                   /\ error' = error
                \/ /\ Abort("OSError", "explain_test", {})
                   /\ files' = files
    /\ UNCHANGED <<inputs, testFile, loaded, fitted, stdout>>

\* main, lines 156-164: mean |SHAP|, the sorted report, the completion message.
Aggregate ==
    /\ pc = "aggregate"
    /\ feat_importance' =
         [feat_importance EXCEPT
            !.MeanAbsSHAP = MeanAbsShap(train_shap_array, Len(feat_importance.Feature))]
    /\ \/ /\ \E rows \in SortedDescending(ImportanceRows(feat_importance')) :
               files' = Append(files, [NoFileOut EXCEPT
                                         !.name = ImportanceFile,
                                         !.columns = <<"Feature", "RF_FeatureImportance",
                                                       "MeanAbsSHAP">>,
                                         !.rows = rows])
          /\ stdout' = CompletionMessages
          /\ pc' = "done"
          /\ error' = error
       \/ /\ Abort("OSError", "aggregate", {})
          /\ UNCHANGED <<files, stdout>>
    /\ UNCHANGED <<inputs, testFile, loaded, model, explainer, baseline_class1,
                   train_shap_array>>

Next ==
    \/ ProcessTrain
    \/ ProcessTest
    \/ Fit
    \/ FeatImportance
    \/ BuildExplainer
    \/ Baseline
    \/ ExplainTrain
    \/ ExplainTest
    \/ Aggregate

Spec == Init /\ [][Next]_vars

\* The interpreter runs the next statement: the run does not stall midway.
FairSpec == Spec /\ WF_vars(Next)

\* ====================================================================== claims
TrainHasLabel == trainFile.exists /\ HasColumn(trainFile.df, LabelCol)
TrainLacksLabel == trainFile.exists /\ ~HasColumn(trainFile.df, LabelCol)
TestHasLabel == testFile.exists /\ HasColumn(testFile.df, LabelCol)
FileNames == [i \in DOMAIN files |-> files[i].name]
Written(name) == \E i \in DOMAIN files : files[i].name = name
FileOf(name) == files[CHOOSE i \in DOMAIN files : files[i].name = name]
StrLabels(file) == {AsStr(v) : v \in Range(file.df.data[LabelCol].vals)}

\* C1: a run whose training table lacks the label column aborts inside the
\* training process_data call: the classifier is never fitted, no output file is
\* ever written and no completion message is printed.
C1_MissingTrainLabelAbortsBeforeOutput ==
    TrainLacksLabel =>
        /\ pc \in {"process_train", "failed"}
        /\ pc = "failed" => error.at = "process_train" /\ error.type # "none"
        /\ model.fits = 0
        /\ files = <<>>
        /\ stdout = <<>>

C1_Witness ==
    /\ TrainLacksLabel
    /\ pc = "failed"
    /\ error.type = "ConfigError"
    /\ files = <<>>

\* C2: the label encoding is fitted once, by the training call, to exactly the
\* string-converted training labels; the scoring call leaves it as it was; and a
\* scoring label outside the training labels makes the scoring call fail, with no
\* code assigned (no encoded scoring label vector exists).
C2_LabelMapFittedOnceUnseenFails ==
    /\ le_y.fits <= 1
    /\ le_y.fits = 1 <=> (pc # "process_train" /\ ~(pc = "failed" /\ error.at = "process_train"))
    /\ le_y.fits = 1 =>
          /\ Range(le_y.classes) = StrLabels(trainFile)
          /\ Len(le_y.classes) = Cardinality(StrLabels(trainFile))
    /\ (TestHasLabel /\ ~(StrLabels(testFile) \subseteq StrLabels(trainFile))) =>
          /\ pc = "failed"
          /\ error.at = "process_test"
          /\ y_test_enc = NoneY

C2_Witness ==
    /\ TestHasLabel
    /\ ~(StrLabels(testFile) \subseteq StrLabels(trainFile))
    /\ StrLabels(testFile) \cap StrLabels(trainFile) # {}
    /\ pc = "failed"
    /\ error.type = "UnseenLabel"

\* C3: a valid training table (label column present with two classes, the named
\* identifier column present, no feature named like an output column) and a
\* scoring table with the same columns minus the label.
Features(file) ==
    SelectSeq(file.df.columns, LAMBDA c : c # LabelCol /\ c # sample_col)

C3_Pre ==
    /\ TrainHasLabel
    /\ sample_col # NoneCol => HasColumn(trainFile.df, sample_col)
    /\ Cardinality(StrLabels(trainFile)) >= 2
    /\ Range(Features(trainFile)) \cap Range(ShapHeader) = {}
    /\ testFile.exists
    /\ testFile.df.columns = SelectSeq(trainFile.df.columns, LAMBDA c : c # LabelCol)

C3_Loaded ==
    /\ y_test_enc = NoneY
    /\ X_test.columns = SelectSeq(testFile.df.columns, LAMBDA c : c # sample_col)
    /\ X_test.nrows = testFile.df.nrows

C3_Completed ==
    /\ pc = "done"
    /\ Written(TrainingShap)
    /\ Written(TestingShap)
    /\ FileOf(TestingShap).columns = FileOf(TrainingShap).columns
    /\ FileOf(TestingShap).columns = ShapHeader \o Features(testFile)
    /\ Len(FileOf(TestingShap).ids) = testFile.df.nrows
    /\ Len(FileOf(TestingShap).values) = testFile.df.nrows

EnvironmentFault == pc = "failed" /\ error.type \in {"LibraryError", "OSError"}

\* C3: with such a pair of tables, once the scoring table is read it has no label
\* vector and its feature matrix is the table minus the identifier column, and the
\* run goes on to completion with testing_shap.tsv written in the training file's
\* schema, one row per scoring sample (unless a library call or a file write
\* raises for a reason outside the inputs).
C3_UnlabelledScoringCompletes ==
    [](C3_Pre => (C3_Loaded /\ <>(C3_Completed \/ EnvironmentFault)))

C3_Witness == C3_Pre /\ C3_Completed

\* C4: the completion message exists only with the three files written in order;
\* a failed run has printed nothing, has executed nothing after the failing step,
\* and never takes another step.
StepsDone(at) ==
    CASE at \in {"process_train", "process_test", "fit"} ->
            model.fits = 0 /\ explainer.builds = 0 /\ files = <<>>
      [] at \in {"explainer"} -> explainer.builds = 0 /\ files = <<>>
      [] at \in {"baseline", "explain_train"} -> files = <<>>
      [] at = "explain_test" -> FileNames = <<TrainingShap>>
      [] at = "aggregate" -> FileNames = <<TrainingShap, TestingShap>>
      [] OTHER -> FALSE

C4_State ==
    /\ stdout # <<>> =>
          pc = "done" /\ FileNames = <<TrainingShap, TestingShap, ImportanceFile>>
    /\ pc = "done" <=> stdout = CompletionMessages
    /\ pc = "failed" <=> error # NoError
    /\ pc = "failed" => stdout = <<>> /\ StepsDone(error.at)

C4_NoSuccessAfterFailure ==
    /\ []C4_State
    /\ [][pc = "failed" => FALSE]_vars
    /\ [][error' # NoError => pc' = "failed" /\ error'.at = pc /\ stdout' = <<>>]_vars

C4_Witness ==
    /\ pc = "failed"
    /\ error.at = "explain_test"
    /\ FileNames = <<TrainingShap>>
    /\ stdout = <<>>

\* C5 as claimed: whatever else holds, a training table without the label column
\* fails with the configuration error naming the label column and the file.
C5_AlwaysConfigError ==
    (TrainLacksLabel /\ pc # "process_train") =>
        /\ pc = "failed"
        /\ error.type = "ConfigError"
        /\ error.names = {trainFile.name, LabelCol}

SampleColMissing == sample_col # NoneCol /\ ~HasColumn(trainFile.df, sample_col)

\* C5, amended: a training table without the label column always makes the training
\* call fail; the failure is the configuration error naming the label column and
\* the file when no identifier column was named or the named one is in the table,
\* and the identifier lookup's KeyError when the named identifier column is absent.
C5_ConfigErrorUnlessIdLookupFails ==
    (TrainLacksLabel /\ pc # "process_train") =>
        /\ pc = "failed"
        /\ error.at = "process_train"
        /\ ~SampleColMissing =>
              error.type = "ConfigError" /\ error.names = {trainFile.name, LabelCol}
        /\ SampleColMissing => error.type = "KeyError"

C5_Witness ==
    /\ TrainLacksLabel
    /\ SampleColMissing
    /\ pc = "failed"
    /\ error.type = "KeyError"

\* C6: when the scoring matrix's columns differ in set or order from the training
\* matrix's, the run never gets past the scoring explanation: no testing_shap.tsv,
\* no completion message.
ColumnsMisaligned ==
    /\ pc \notin {"process_train", "process_test"}
    /\ ~(pc = "failed" /\ error.at \in {"process_train", "process_test"})
    /\ X_test.columns # X_train.columns

C6_MisalignedScoringFails ==
    ColumnsMisaligned =>
        /\ pc \notin {"aggregate", "done"}
        /\ ~Written(TestingShap)
        /\ ~Written(ImportanceFile)
        /\ stdout = <<>>

C6_Witness ==
    /\ ColumnsMisaligned
    /\ Range(X_test.columns) = Range(X_train.columns)
    /\ pc = "failed"
    /\ error.at = "explain_test"
    /\ error.type = "SchemaError"
    /\ FileNames = <<TrainingShap>>

\* C7: in an encoded matrix a numeric column is the raw column, and a cell of a
\* non-numeric column holds the number of distinct string-converted values of that
\* column (in that table) that sort before it, so k distinct values get exactly
\* 0..k-1; hence equal value sets in the two tables give a literal equal codes.
StrSet(col) == {AsStr(v) : v \in Range(col.vals)}

Rank(col, v) == Cardinality({u \in StrSet(col) : StrLess(u, AsStr(v))})

EncodedAsClaimed(raw, X) ==
    \A c \in Range(X.columns) :
        /\ X.data[c].dtype = "num"
        /\ Len(X.data[c].vals) = Len(raw.data[c].vals)
        /\ raw.data[c].dtype = "num" => X.data[c] = raw.data[c]
        /\ raw.data[c].dtype # "num" =>
              /\ \A i \in DOMAIN raw.data[c].vals :
                    X.data[c].vals[i] = Rank(raw.data[c], raw.data[c].vals[i])
              /\ Range(X.data[c].vals) = 0..(Cardinality(StrSet(raw.data[c])) - 1)

SameLiteralSameCode(c) ==
    \A i \in DOMAIN trainFile.df.data[c].vals, j \in DOMAIN testFile.df.data[c].vals :
        AsStr(trainFile.df.data[c].vals[i]) = AsStr(testFile.df.data[c].vals[j])
            => X_train.data[c].vals[i] = X_test.data[c].vals[j]

BothLoaded ==
    /\ pc \notin {"process_train", "process_test"}
    /\ ~(pc = "failed" /\ error.at \in {"process_train", "process_test"})

C7_CodesBySortedDistinctValues ==
    /\ X_train # EmptyFrame => EncodedAsClaimed(trainFile.df, X_train)
    /\ X_test # EmptyFrame => EncodedAsClaimed(testFile.df, X_test)
    /\ BothLoaded =>
          \A c \in Range(X_train.columns) \cap Range(X_test.columns) :
              (/\ trainFile.df.data[c].dtype # "num"
               /\ StrSet(trainFile.df.data[c]) = StrSet(testFile.df.data[c]))
                  => SameLiteralSameCode(c)

\* The same literal coded differently in the two matrices: the value sets differ.
C7_Witness ==
    /\ BothLoaded
    /\ HasColumn(X_train, "tissue") /\ HasColumn(X_test, "tissue")
    /\ StrSet(trainFile.df.data["tissue"]) # StrSet(testFile.df.data["tissue"])
    /\ ~SameLiteralSameCode("tissue")
    /\ Cardinality(StrSet(trainFile.df.data["tissue"])) = 2

\* C8: the report has one row per training-matrix column, each feature once, with
\* that feature's own importance and the mean |attribution| of its column of
\* training_shap.tsv, in descending order of importance.
ColumnIndex(cols, c) == CHOOSE j \in DOMAIN cols : cols[j] = c

C8_Report(rep, trn) ==
    /\ Len(rep.rows) = Len(X_train.columns)
    /\ {rep.rows[k].Feature : k \in DOMAIN rep.rows} = Range(X_train.columns)
    /\ \A k \in DOMAIN rep.rows :
          LET j == ColumnIndex(X_train.columns, rep.rows[k].Feature)
          IN  /\ rep.rows[k].RF_FeatureImportance = FeatureImportances(model)[j]
              /\ rep.rows[k].MeanAbsSHAP.den = Len(trn.values)
              /\ rep.rows[k].MeanAbsSHAP.num =
                    SumSeq([i \in DOMAIN trn.values |-> Abs(trn.values[i][j])])
    /\ \A a, b \in DOMAIN rep.rows :
          a < b => rep.rows[a].RF_FeatureImportance >= rep.rows[b].RF_FeatureImportance

C8_ImportanceReport ==
    Written(ImportanceFile) => C8_Report(FileOf(ImportanceFile), FileOf(TrainingShap))

\* A report whose order differs from the column order and whose training and
\* scoring attributions differ.
C8_Witness ==
    /\ Written(ImportanceFile)
    /\ Len(FileOf(ImportanceFile).rows) = 2
    /\ FileOf(ImportanceFile).rows[1].Feature = X_train.columns[2]
    /\ FileOf(TestingShap).values # FileOf(TrainingShap).values

\* C9 as claimed: index 1 of the per-class attributions when there are at least
\* two classes, and the baseline is element 1 of several baselines or else the
\* sole value, a bare scalar included.
BaselineStepPassed ==
    /\ explainer.builds = 1
    /\ pc # "baseline"

C9_PositiveClassSelection ==
    /\ BaselineStepPassed =>
          /\ ~(pc = "failed" /\ error.at = "baseline")
          /\ baseline_class1 =
                IF Len(explainer.expected_value.val) > 1
                THEN explainer.expected_value.val[2]
                ELSE explainer.expected_value.val[1]
    /\ Written(TrainingShap) =>
          train_shap_array = ShapValues(explainer, model, X_train).per[2]

\* C10: one fit, one explainer built after it, one baseline; both outputs carry
\* that baseline in every row; nothing is refitted, rebuilt or recomputed once the
\* explanations start.
ShapFiles == {files[i] : i \in {k \in DOMAIN files : files[k].name # ImportanceFile}}

C10_State ==
    /\ model.fits <= 1
    /\ explainer.builds <= 1
    /\ explainer.builds = 1 => model.fits = 1
    /\ \A f \in ShapFiles :
          /\ Len(f.baseline) = Len(f.ids)
          /\ \A i \in DOMAIN f.baseline :
                f.baseline[i] = explainer.expected_value.val[2]

C10_SingleExplainerAndBaseline ==
    /\ []C10_State
    /\ [][explainer.builds = 1 => model' = model /\ explainer' = explainer]_vars
    /\ [][(pc \in {"explain_train", "explain_test", "aggregate"})
             => (baseline_class1' = baseline_class1)]_vars

C10_Witness ==
    /\ pc = "done"
    /\ Cardinality(ShapFiles) = 2
    /\ \A f \in ShapFiles : Len(f.baseline) >= 1
    /\ \A f, g \in ShapFiles : f.baseline[1] = g.baseline[1]
====
